---- MODULE Spec2Model ----
(***************************************************************************)
(* LinearizedConvolution (src/modules/linearized_convolution.py): a 1-D    *)
(* convolution layer with a batch mode (forward) and an incremental mode   *)
(* (incremental_forward) that keeps a rolling input buffer and a cached    *)
(* linearization of the weight.                                            *)
(*                                                                         *)
(* Tensors are tuples: x[b][t][c] (batch, time, channel), weight[o][c][k]  *)
(* (out channel, in channel, kernel position), all indices from 1.         *)
(* Python's None is the empty tuple <<>>.                                  *)
(***************************************************************************)
EXTENDS Integers, Sequences, FiniteSets, TLC

VARIABLES
    kernel_size,        \* self.kernel_size[0]
    in_channels,        \* self.in_channels
    out_channels,       \* self.out_channels
    padding,            \* self.padding[0]
    stride,             \* self.stride[0]
    dilation,           \* self.dilation[0]
    bsz,                \* the batch size the caller uses
    weight,             \* the tensor bound to self.weight
    bias,               \* self.bias (a vector; zero when absent)
    training,           \* self.training
    input_buffer,       \* self.input_buffer, <<>> when None
    linearized_weight,  \* self._linearized_weight, <<>> when None
    lw_is_view,         \* the cached tensor shares storage with self.weight
    forward_pre_hooks,  \* self._forward_pre_hooks, in registration order
    weight_g,           \* weight norm's gain parameter
    weight_v,           \* weight norm's direction parameter
    hist,               \* history: per row, the frames fed since the buffer was last empty
    outs,               \* history: per row, the outputs returned for those frames
    steady,             \* history: no parameter was updated since the first of those frames
    reused,             \* history: clear_buffer has ended a sequence of frames
    ret                 \* history: the latest call, its input, result and internal steps

config == <<kernel_size, in_channels, out_channels, padding, stride, dilation, bsz, bias>>
params == <<weight, weight_g, weight_v>>
history == <<hist, outs, steady, reused>>
vars == <<config, params, training, input_buffer, linearized_weight, lw_is_view,
          forward_pre_hooks, history, ret>>

(***************************************************************************)
(* Bounds of the model.                                                    *)
(***************************************************************************)
MaxIn == 1         \* lifecycle: input frames are built from the scalars 1..MaxIn
MaxSteps == 2      \* lifecycle: incremental steps between two clear_buffer calls
MaxT == 1          \* lifecycle: batch-mode inputs have 1..MaxT time steps
DecIn == 4         \* decoding: input frames are built from the scalars 1..DecIn
DecSteps == 4      \* decoding: incremental steps between two clear_buffer calls
MaxPad == 1        \* batch mode: paddings 0..MaxPad
MaxStride == 2     \* batch mode: strides 1..MaxStride
MaxDil == 2        \* batch mode: dilations 1..MaxDil
BatchT == 2        \* batch mode: inputs have 1..BatchT time steps
BatchIn == 2       \* batch mode: input frames are built from the scalars 1..BatchIn
BeamIn == 2        \* beam search: input frames are built from the scalars 1..BeamIn
BeamSteps == 3     \* beam search: incremental steps between two clear_buffer calls

\* the scalars weight tensors, gains and bias vectors are built from
WeightScalars == {1, 2}
BiasScalars == {0, 1}

None == <<>>

(***************************************************************************)
(* Tensor helpers.                                                         *)
(***************************************************************************)
RECURSIVE SumTo(_, _)
SumTo(f, n) == IF n = 0 THEN 0 ELSE f[n] + SumTo(f, n - 1)

\* the sum of the integer tuple f
Sum(f) == SumTo(f, Len(f))

\* mutant: the new buffer is not zeroed
ZerosNot(b, kw, dim) == [i \in 1..b |-> [k \in 1..kw |-> [c \in 1..dim |-> 1]]]

\* bsz x kw x dim tensor of zeros: input.new(bsz, kw, dim).zero_()
Zeros(b, kw, dim) == [i \in 1..b |-> [k \in 1..kw |-> [c \in 1..dim |-> 0]]]

\* the single input frame number s of a batch: bsz x 1 x in_channels, the rows
\* and the channels all different
InputFrame(s) == [b \in 1..bsz |-> << [c \in 1..in_channels |-> s * b + (c - 1)] >>]

\* a batch-mode input of T time steps, bsz x T x in_channels
InputSeq(ss) == [b \in 1..bsz |-> [t \in 1..Len(ss) |-> InputFrame(ss[t])[b][1]]]

\* a weight tensor of shape (nout, nin, kw) with pairwise different entries, scaled by m
WeightChoice(m, nout, nin, kw) ==
    [o \in 1..nout |-> [c \in 1..nin |-> [k \in 1..kw |->
        m * (k + kw * (c - 1) + kw * nin * (o - 1))]]]

\* a bias vector
BiasChoice(bb, nout) == [o \in 1..nout |-> bb * o]

(***************************************************************************)
(* F.linear(input, w, bias) on a bsz x n input and an nout x n matrix.     *)
(***************************************************************************)
Linear(input, w, b) ==
    [i \in 1..Len(input) |-> [o \in 1..Len(w) |->
        Sum([j \in 1..Len(w[o]) |-> input[i][j] * w[o][j]]) + b[o]]]

(***************************************************************************)
(* nn.Conv1d.forward on x[b][c][t] (batch, channel, time): zero padding on *)
(* both sides, cross-correlation with the given stride and dilation.       *)
(***************************************************************************)
ConvOutLen(T, kw, p, s, d) == ((T + 2 * p - d * (kw - 1) - 1) \div s) + 1

Conv1d(x, w, b, p, s, d) ==
    LET nin == Len(x[1])
        T == Len(x[1][1])
        kw == Len(w[1][1])
        at(i, c, j) == IF j - p >= 1 /\ j - p <= T THEN x[i][c][j - p] ELSE 0
    IN [i \in 1..Len(x) |-> [o \in 1..Len(w) |-> [t \in 1..ConvOutLen(T, kw, p, s, d) |->
          Sum([c \in 1..nin |->
                 Sum([k \in 1..kw |-> w[o][c][k] * at(i, c, (t - 1) * s + (k - 1) * d + 1)])])
          + b[o]]]]

\* x.transpose(1, 2) of a 3-D tensor
Transpose12(x) ==
    [i \in 1..Len(x) |-> [j \in 1..Len(x[i][1]) |-> [k \in 1..Len(x[i]) |-> x[i][k][j]]]]

\* the kernel-width > 1 branch of forward: transpose, convolve, transpose back
ConvPath(x, w, b, p, s, d) == Transpose12(Conv1d(Transpose12(x), w, b, p, s, d))

\* self.weight.squeeze(2) for kernel width 1
Squeeze2(w) == [o \in 1..Len(w) |-> [c \in 1..Len(w[o]) |-> w[o][c][1]]]

\* the kernel-width 1 branch of forward: F.linear on every (row, time step)
LinearPath(x, w, b) == [i \in 1..Len(x) |-> Linear(x[i], Squeeze2(w), b)]

\* forward(x) with the weight w
forward(x, w) ==
    IF kernel_size > 1
    THEN ConvPath(x, w, bias, padding, stride, dilation)
    ELSE LinearPath(x, w, bias)

\* mutant: the leading time steps are removed instead of the trailing ones
RemoveLeadingTimesteps(x) ==
    IF kernel_size > 1 /\ padding > 0
    THEN [i \in 1..Len(x) |-> SubSeq(x[i], padding + 1, Len(x[i]))]
    ELSE x

\* remove_future_timesteps(x)
remove_future_timesteps(x) ==
    IF kernel_size > 1 /\ padding > 0
    THEN [i \in 1..Len(x) |-> SubSeq(x[i], 1, Len(x[i]) - padding)]
    ELSE x

(***************************************************************************)
(* The linearized weight.                                                  *)
(***************************************************************************)
\* weight.transpose(1, 2).contiguous().view(nout, kw * nin)
Linearize(w) ==
    LET nin == Len(w[1])
        kw == Len(w[1][1])
    IN [o \in 1..Len(w) |-> [j \in 1..(kw * nin) |->
          w[o][((j - 1) % nin) + 1][((j - 1) \div nin) + 1]]]

\* .contiguous() returns the transposed tensor itself, so that the cached view
\* shares the weight's storage, exactly when the transposition of (nout, nin, kw)
\* is already contiguous: a dimension of size 1 does not count
TransposeIsContiguous(w) == Len(w[1]) = 1 \/ Len(w[1][1]) = 1

\* input.view(bsz, -1) of a bsz x len x dim tensor
Flatten(x) ==
    [i \in 1..Len(x) |-> [j \in 1..(Len(x[i]) * Len(x[i][1])) |->
        x[i][((j - 1) \div Len(x[i][1])) + 1][((j - 1) % Len(x[i][1])) + 1]]]

(***************************************************************************)
(* Forward pre-hooks.  The hooks are the framework's; two kinds are        *)
(* modelled.  "weight_norm" recomputes the weight from the parameters      *)
(* weight_g and weight_v and binds the new tensor to self.weight on every  *)
(* call (the norm is left out: the weight is g * v); "observer" reads its  *)
(* arguments only.                                                         *)
(***************************************************************************)
HookKinds == {"weight_norm", "observer"}

\* weight norm's compute_weight
Reparam(g, v) ==
    [o \in 1..Len(v) |-> [c \in 1..Len(v[o]) |-> [k \in 1..Len(v[o][c]) |-> g * v[o][c][k]]]]

\* one hook call, hook(self, input), on the layer state st
CallHook(st, h) ==
    IF h = "weight_norm"
    THEN [st EXCEPT !.weight = Reparam(weight_g, weight_v),
                    !.view = FALSE,
                    !.calls = Append(@, h)]
    ELSE [st EXCEPT !.calls = Append(@, h)]

(***************************************************************************)
(* _get_linearized_weight and _clear_linearized_weight on a layer state.   *)
(***************************************************************************)
\* mutant: the linearization is recomputed on every call
GetLinearizedWeightAlways(st) ==
    [st EXCEPT !.lw = Linearize(st.weight),
               !.view = TransposeIsContiguous(st.weight),
               !.calls = Append(@, "_get_linearized_weight")]

GetLinearizedWeight(st) ==
    IF st.lw = None
    THEN [st EXCEPT !.lw = Linearize(st.weight),
                    !.view = TransposeIsContiguous(st.weight),
                    !.calls = Append(@, "_get_linearized_weight")]
    ELSE [st EXCEPT !.calls = Append(@, "_get_linearized_weight")]

\* mutant: the backward hook leaves the cached tensor in place
ClearLinearizedWeightNot(st) == st

ClearLinearizedWeight(st) == [st EXCEPT !.lw = None, !.view = FALSE]

(***************************************************************************)
(* The buffer step of incremental_forward (kernel width > 1): allocate a   *)
(* zero buffer or shift the existing one, then write the input's last      *)
(* frame as the last frame.                                                *)
(***************************************************************************)
\* mutant: the buffer is not shifted
ShiftBufferNot(buf) == buf

ShiftBuffer(buf) ==
    [i \in 1..Len(buf) |-> [k \in 1..Len(buf[i]) |->
        IF k < Len(buf[i]) THEN buf[i][k + 1] ELSE buf[i][k]]]

\* mutant: the frame is concatenated to the buffer
AppendInputGrow(buf, input) ==
    [i \in 1..Len(buf) |-> Append(buf[i], input[i][Len(input[i])])]

AppendInput(buf, input) ==
    [i \in 1..Len(buf) |-> [k \in 1..Len(buf[i]) |->
        IF k = Len(buf[i]) THEN input[i][Len(input[i])] ELSE buf[i][k]]]

\* mutant: the buffer is kept whatever the kernel width
UpdateBufferAlways(st, input) ==
    LET base == IF st.buf = None
                THEN Zeros(Len(input), kernel_size, Len(input[1][1]))
                ELSE ShiftBuffer(st.buf)
    IN [st EXCEPT !.buf = AppendInput(base, input),
                  !.calls = Append(@, "input_buffer")]

UpdateBuffer(st, input) ==
    IF kernel_size > 1
    THEN LET base == IF st.buf = None
                     THEN Zeros(Len(input), kernel_size, Len(input[1][1]))
                     ELSE ShiftBuffer(st.buf)
         IN [st EXCEPT !.buf = AppendInput(base, input),
                       !.calls = Append(@, "input_buffer")]
    ELSE [st EXCEPT !.calls = Append(@, "input_buffer")]

\* F.linear(input.view(bsz, -1), weight, self.bias), input being the buffer
\* when the kernel width is > 1
ComputeOutput(st, input) ==
    [st EXCEPT !.out = Linear(Flatten(IF kernel_size > 1 THEN st.buf ELSE input),
                              st.lw, bias),
               !.calls = Append(@, "F.linear")]

(***************************************************************************)
(* incremental_forward as the sequence of its steps: the pre-hooks in      *)
(* registration order, the linearized weight, the buffer, the projection.  *)
(***************************************************************************)
IncrementalSteps(hooks) == hooks \o <<"_get_linearized_weight", "input_buffer", "F.linear">>

DoStep(st, step, input) ==
    CASE step = "_get_linearized_weight" -> GetLinearizedWeight(st)
      [] step = "input_buffer" -> UpdateBuffer(st, input)
      [] step = "F.linear" -> ComputeOutput(st, input)
      [] OTHER -> CallHook(st, step)

RECURSIVE RunSteps(_, _, _)
RunSteps(st, steps, input) ==
    IF steps = <<>> THEN st
    ELSE RunSteps(DoStep(st, Head(steps), input), Tail(steps), input)

\* the layer state the steps work on
LayerState ==
    [weight |-> weight, lw |-> linearized_weight, view |-> lw_is_view,
     buf |-> input_buffer, out |-> <<>>, calls |-> <<>>]

\* mutant: no check of the training mode
RaisesNever == FALSE

\* if self.training: raise RuntimeError
RaisesInTraining == training

Ret(op, raised, x, out, calls) ==
    [op |-> op, raised |-> raised, x |-> x, out |-> out, calls |-> calls]

EmptyHist == [b \in 1..bsz |-> <<>>]

(***************************************************************************)
(* Actions.                                                                *)
(***************************************************************************)
\* incremental_forward(input), input the frame number s
IncrementalForward(s) ==
    LET input == InputFrame(s)
        st == RunSteps(LayerState, IncrementalSteps(forward_pre_hooks), input)
    IN IF RaisesInTraining
       THEN /\ ret' = Ret("incremental_forward", TRUE, <<>>, <<>>, <<>>)
            /\ UNCHANGED <<config, params, training, input_buffer, linearized_weight,
                           lw_is_view, forward_pre_hooks, history>>
       ELSE /\ weight' = st.weight
            /\ linearized_weight' = st.lw
            /\ lw_is_view' = st.view
            /\ input_buffer' = st.buf
            /\ hist' = [b \in 1..bsz |-> Append(hist[b], input[b][1])]
            /\ outs' = [b \in 1..bsz |-> Append(outs[b], st.out[b])]
            /\ UNCHANGED <<steady, reused>>
            /\ ret' = Ret("incremental_forward", FALSE, <<>>, st.out, st.calls)
            /\ UNCHANGED <<config, weight_g, weight_v, training, forward_pre_hooks>>

\* mutant: clear_buffer leaves the buffer allocated
ClearBufferNot ==
    /\ hist' = EmptyHist
    /\ outs' = EmptyHist
    /\ steady' = TRUE
    /\ reused' = (reused \/ Len(hist[1]) > 0)
    /\ ret' = Ret("clear_buffer", FALSE, <<>>, <<>>, <<>>)
    /\ UNCHANGED <<config, params, training, input_buffer, linearized_weight, lw_is_view,
                   forward_pre_hooks>>

\* clear_buffer()
ClearBuffer ==
    /\ input_buffer' = None
    /\ hist' = EmptyHist
    /\ outs' = EmptyHist
    /\ steady' = TRUE
    /\ reused' = (reused \/ Len(hist[1]) > 0)
    /\ ret' = Ret("clear_buffer", FALSE, <<>>, <<>>, <<>>)
    /\ UNCHANGED <<config, params, training, linearized_weight, lw_is_view, forward_pre_hooks>>

\* mutant: the rows are scattered to new_order instead of gathered from it
IndexSelect0Scatter(x, new_order) ==
    [i \in 1..Len(new_order) |->
        IF \E j \in 1..Len(new_order) : new_order[j] = i
        THEN x[CHOOSE j \in 1..Len(new_order) : new_order[j] = i]
        ELSE x[i]]

\* self.input_buffer.index_select(0, new_order)
IndexSelect0(x, new_order) == [i \in 1..Len(new_order) |-> x[new_order[i]]]

\* mutant: reorder_buffer allocates a missing buffer
ReorderBufferEager(new_order) ==
    /\ input_buffer' = IndexSelect0(IF input_buffer # None THEN input_buffer
                                    ELSE Zeros(bsz, kernel_size, in_channels), new_order)
    /\ hist' = [i \in 1..Len(new_order) |-> hist[new_order[i]]]
    /\ outs' = [i \in 1..Len(new_order) |-> outs[new_order[i]]]
    /\ UNCHANGED <<steady, reused>>
    /\ ret' = Ret("reorder_buffer", FALSE, new_order, <<>>, <<>>)
    /\ UNCHANGED <<config, params, training, linearized_weight, lw_is_view, forward_pre_hooks>>

\* reorder_buffer(new_order); the histories follow the rows
ReorderBuffer(new_order) ==
    /\ IF input_buffer # None
       THEN /\ input_buffer' = IndexSelect0(input_buffer, new_order)
            /\ hist' = [i \in 1..Len(new_order) |-> hist[new_order[i]]]
            /\ outs' = [i \in 1..Len(new_order) |-> outs[new_order[i]]]
       ELSE UNCHANGED <<input_buffer, hist, outs>>
    /\ UNCHANGED <<steady, reused>>
    /\ ret' = Ret("reorder_buffer", FALSE, new_order, <<>>, <<>>)
    /\ UNCHANGED <<config, params, training, linearized_weight, lw_is_view, forward_pre_hooks>>

\* mutant: a call of the module drops the cached linearized weight
ForwardInvalidates(ss) ==
    LET x == InputSeq(ss)
        st == RunSteps(LayerState, forward_pre_hooks, x)
    IN /\ kernel_size > 1 => Len(ss) + 2 * padding >= dilation * (kernel_size - 1) + 1
       /\ weight' = st.weight
       /\ lw_is_view' = FALSE
       /\ linearized_weight' = None
       /\ ret' = Ret("forward", FALSE, x, forward(x, st.weight), st.calls)
       /\ UNCHANGED <<config, weight_g, weight_v, training, input_buffer,
                      forward_pre_hooks, history>>

\* the module called on a batch x: the pre-hooks, then forward(x); the
\* convolution primitive rejects an input shorter than the dilated kernel
Forward(ss) ==
    LET x == InputSeq(ss)
        st == RunSteps(LayerState, forward_pre_hooks, x)
    IN /\ kernel_size > 1 => Len(ss) + 2 * padding >= dilation * (kernel_size - 1) + 1
       /\ weight' = st.weight
       /\ lw_is_view' = st.view
       /\ ret' = Ret("forward", FALSE, x, forward(x, st.weight), st.calls)
       /\ UNCHANGED <<config, weight_g, weight_v, training, input_buffer,
                      linearized_weight, forward_pre_hooks, history>>

\* remove_future_timesteps(x) on the result of the latest forward
RemoveFutureTimesteps ==
    /\ ret.op = "forward"
    /\ ret' = Ret("remove_future_timesteps", FALSE, ret.out,
                  remove_future_timesteps(ret.out), <<>>)
    /\ UNCHANGED <<config, params, training, input_buffer, linearized_weight, lw_is_view,
                   forward_pre_hooks, history>>

\* a backward pass through the layer after a forward: the backward hook
\* registered in __init__ calls _clear_linearized_weight
Backward ==
    LET st == ClearLinearizedWeight(LayerState)
    IN /\ ret.op = "forward"
       /\ linearized_weight' = st.lw
       /\ lw_is_view' = st.view
       /\ ret' = Ret("backward", FALSE, <<>>, <<>>, <<>>)
       /\ UNCHANGED <<config, params, training, input_buffer, forward_pre_hooks, history>>

\* train() and eval()
SetTraining(mode) ==
    /\ training' = mode
    /\ ret' = Ret(IF mode THEN "train" ELSE "eval", FALSE, <<>>, <<>>, <<>>)
    /\ UNCHANGED <<config, params, input_buffer, linearized_weight, lw_is_view,
                   forward_pre_hooks, history>>

\* the parameters change in place (an optimizer step, load_state_dict, a copy
\* into weight.data): the weight itself, or weight norm's gain when weight norm
\* is registered.  A cached view of the weight's storage changes with it.
UpdateWeight(m) ==
    /\ IF \E i \in 1..Len(forward_pre_hooks) : forward_pre_hooks[i] = "weight_norm"
       THEN /\ weight_g' = m
            /\ UNCHANGED <<weight, weight_v, linearized_weight>>
       ELSE LET w == WeightChoice(m, out_channels, in_channels, kernel_size)
            IN /\ weight' = w
               /\ linearized_weight' =
                     IF linearized_weight # None /\ lw_is_view
                     THEN Linearize(w) ELSE linearized_weight
               /\ UNCHANGED <<weight_g, weight_v>>
    /\ steady' = (Len(hist[1]) = 0)
    /\ ret' = Ret("update_weight", FALSE, <<>>, <<>>, <<>>)
    /\ UNCHANGED <<config, training, input_buffer, lw_is_view, forward_pre_hooks,
                   hist, outs, reused>>

\* register_forward_pre_hook, while the model is built: weight norm splits the
\* weight into g and v and binds the recomputed tensor to self.weight
RegisterHook(h) ==
    /\ ret.op \in {"__init__", "register_forward_pre_hook"}
    /\ \A i \in 1..Len(forward_pre_hooks) : forward_pre_hooks[i] # h
    /\ forward_pre_hooks' = Append(forward_pre_hooks, h)
    /\ IF h = "weight_norm"
       THEN /\ weight_g' = 1
            /\ weight_v' = weight
            /\ weight' = Reparam(1, weight)
            /\ lw_is_view' = FALSE
       ELSE UNCHANGED <<params, lw_is_view>>
    /\ ret' = Ret("register_forward_pre_hook", FALSE, <<>>, <<>>, <<>>)
    /\ UNCHANGED <<config, training, input_buffer, linearized_weight, history>>

(***************************************************************************)
(* The layer after __init__: the buffer cleared, no linearized weight, in  *)
(* training mode (the framework's default), no hooks.                      *)
(***************************************************************************)
Constructed ==
    /\ weight = WeightChoice(1, out_channels, in_channels, kernel_size)
    /\ training = TRUE
    /\ input_buffer = None
    /\ linearized_weight = None
    /\ lw_is_view = FALSE
    /\ forward_pre_hooks = <<>>
    /\ weight_g = 1
    /\ weight_v = <<>>
    /\ hist = EmptyHist
    /\ outs = EmptyHist
    /\ steady = TRUE
    /\ reused = FALSE
    /\ ret = Ret("__init__", FALSE, <<>>, <<>>, <<>>)

\* decoder layers, <<kernel_size, in_channels, bsz>>: causal padding
\* kernel_size - 1, stride 1, dilation 1, one output channel with bias 1
Shapes == {<<1, 2, 1>>, <<2, 1, 1>>, <<2, 2, 1>>}

Init ==
    /\ \E sh \in Shapes : kernel_size = sh[1] /\ in_channels = sh[2] /\ bsz = sh[3]
    /\ out_channels = 1
    /\ bias = BiasChoice(1, out_channels)
    /\ padding = kernel_size - 1
    /\ stride = 1
    /\ dilation = 1
    /\ Constructed

Next ==
    \/ \E s \in 1..MaxIn : Len(hist[1]) < MaxSteps /\ IncrementalForward(s)
    \/ ClearBuffer
    \/ \E new_order \in [1..bsz -> 1..bsz] : ReorderBuffer(new_order)
    \/ \E T \in 1..MaxT : Forward([t \in 1..T |-> t])
    \/ RemoveFutureTimesteps
    \/ Backward
    \/ \E mode \in BOOLEAN : SetTraining(mode)
    \/ \E m \in WeightScalars : UpdateWeight(m)
    \/ \E h \in HookKinds : RegisterHook(h)

Spec == Init /\ [][Next]_vars

(***************************************************************************)
(* Decoding: a layer built with any of the weights, put in inference mode  *)
(* with eval(), and then driven by a decoder loop alone (incremental       *)
(* steps, clear_buffer, reorder_buffer).                                   *)
(***************************************************************************)
InferenceLayer(shapes) ==
    /\ \E sh \in shapes : kernel_size = sh[1] /\ in_channels = sh[2] /\ bsz = sh[3]
    /\ out_channels = 1
    /\ \E bb \in BiasScalars : bias = BiasChoice(bb, out_channels)
    /\ padding = kernel_size - 1
    /\ stride = 1
    /\ dilation = 1
    /\ \E m \in WeightScalars : weight = WeightChoice(m, out_channels, in_channels, kernel_size)
    /\ training = FALSE
    /\ input_buffer = None
    /\ linearized_weight = None
    /\ lw_is_view = FALSE
    /\ forward_pre_hooks = <<>>
    /\ weight_g = 1
    /\ weight_v = <<>>
    /\ hist = EmptyHist
    /\ outs = EmptyHist
    /\ steady = TRUE
    /\ reused = FALSE
    /\ ret = Ret("eval", FALSE, <<>>, <<>>, <<>>)

\* greedy decoding of one sequence at a time
DecodeShapes == {<<1, 2, 1>>, <<2, 2, 1>>, <<3, 1, 1>>}

InitDecode == InferenceLayer(DecodeShapes)

NextDecode ==
    \/ \E s \in 1..DecIn : Len(hist[1]) < DecSteps /\ IncrementalForward(s)
    \/ ClearBuffer
    \/ \E new_order \in [1..bsz -> 1..bsz] : ReorderBuffer(new_order)

SpecDecode == InitDecode /\ [][NextDecode]_vars

\* beam search over two hypotheses
BeamShapes == {<<1, 2, 2>>, <<2, 2, 2>>, <<3, 1, 2>>}

InitBeam == InferenceLayer(BeamShapes)

NextBeam ==
    \/ \E s \in 1..BeamIn : Len(hist[1]) < BeamSteps /\ IncrementalForward(s)
    \/ ClearBuffer
    \/ \E new_order \in [1..bsz -> 1..bsz] : ReorderBuffer(new_order)

SpecBeam == InitBeam /\ [][NextBeam]_vars

(***************************************************************************)
(* Batch mode: layers of any padding, stride and dilation, called on whole *)
(* sequences.                                                              *)
(***************************************************************************)
BatchShapes == {<<1, 2, 1>>, <<2, 1, 2>>, <<2, 2, 1>>}

RECURSIVE SeqsOf(_, _)
\* the sequences of length n over S
SeqsOf(S, n) ==
    IF n = 0 THEN {<<>>} ELSE {Append(q, e) : q \in SeqsOf(S, n - 1), e \in S}

InitBatch ==
    /\ \E sh \in BatchShapes : kernel_size = sh[1] /\ in_channels = sh[2] /\ bsz = sh[3]
    /\ out_channels = 1
    /\ \E bb \in BiasScalars : bias = BiasChoice(bb, out_channels)
    /\ padding \in 0..MaxPad
    /\ stride \in 1..MaxStride
    /\ dilation \in 1..MaxDil
    /\ Constructed

NextBatch ==
    \/ \E T \in 1..BatchT : \E ss \in SeqsOf(1..BatchIn, T) : Forward(ss)
    \/ RemoveFutureTimesteps

SpecBatch == InitBatch /\ [][NextBatch]_vars

(***************************************************************************)
(* Properties of the decoder loop.                                         *)
(***************************************************************************)
\* a successful incremental_forward was the latest call
Stepped == ret.op = "incremental_forward" /\ ~ret.raised

\* the frames of one row as a batch-mode input of one row
AsBatch(frames) == << frames >>

\* C2 (amended): the layer with kernel width 3, one input and one output channel,
\* batch 1, weight [[[1,2,3]]] and bias 0, fed 1, 2, 3, 4 from an empty buffer,
\* returns 3, 8, 14, 20 (after every prefix of the inputs, the matching prefix of the
\* outputs), the buffer going through the windows [0,0,1], [0,1,2], [1,2,3],
\* [2,3,4], and these are the outputs of the causal full-sequence convolution.
ScenarioLayer ==
    /\ kernel_size = 3 /\ in_channels = 1 /\ out_channels = 1 /\ bsz = 1
    /\ weight = << << <<1, 2, 3>> >> >>
    /\ bias = <<0>>

ScenarioInputs == << <<1>>, <<2>>, <<3>>, <<4>> >>
ScenarioOutputs == << <<3>>, <<8>>, <<14>>, <<20>> >>
ScenarioOutputsClaimed == << <<1>>, <<4>>, <<10>>, <<16>> >>
ScenarioWindows ==
    << << <<0>>, <<0>>, <<1>> >>, << <<0>>, <<1>>, <<2>> >>,
       << <<1>>, <<2>>, <<3>> >>, << <<2>>, <<3>>, <<4>> >> >>

C2_Scenario ==
    \A n \in 1..4 :
        (ScenarioLayer /\ hist[1] = SubSeq(ScenarioInputs, 1, n))
        => /\ outs[1] = SubSeq(ScenarioOutputs, 1, n)
           /\ input_buffer = << ScenarioWindows[n] >>
           /\ remove_future_timesteps(forward(AsBatch(hist[1]), weight)) = AsBatch(outs[1])

\* C2 as stated, with the outputs 1, 4, 10, 16
C2_AsStated ==
    \A n \in 1..4 :
        (ScenarioLayer /\ hist[1] = SubSeq(ScenarioInputs, 1, n))
        => /\ outs[1] = SubSeq(ScenarioOutputsClaimed, 1, n)
           /\ input_buffer = << ScenarioWindows[n] >>
           /\ remove_future_timesteps(forward(AsBatch(hist[1]), weight)) = AsBatch(outs[1])

C2_Witness == ScenarioLayer /\ hist[1] = ScenarioInputs /\ Stepped

\* C9: for kernel width K > 1, after n >= 1 steps since the buffer was last
\* empty, frame j (0 <= j < K) of every row of the buffer is that row's input
\* of step n - K + 1 + j when that step is >= 1, and zero otherwise.  (hist
\* follows a row through reorder_buffer; with no reorder it is the row's inputs.)
C9_RollingWindow ==
    (kernel_size > 1 /\ Len(hist[1]) >= 1)
    => /\ input_buffer # None
       /\ \A b \in 1..bsz : \A j \in 0..(kernel_size - 1) :
             LET m == Len(hist[b]) - kernel_size + 1 + j
             IN input_buffer[b][j + 1] =
                   IF m >= 1 THEN hist[b][m] ELSE [c \in 1..in_channels |-> 0]

C9_Witness ==
    /\ kernel_size = 2 /\ bsz = 2 /\ Len(hist[1]) = 3 /\ Stepped
    /\ hist[1][1] # hist[1][2] /\ hist[1][2] # hist[1][3]

\* the outputs a freshly constructed layer with this layer's weight and bias
\* returns for the frames of one row, fed one at a time
RECURSIVE FreshRun(_, _, _)
FreshRun(st, frames, acc) ==
    IF frames = <<>> THEN acc
    ELSE CHOOSE r \in {FreshRun(nx, Tail(frames), Append(acc, nx.out[1])) :
                         nx \in {RunSteps(st, IncrementalSteps(<<>>),
                                           << << Head(frames) >> >>)}} : TRUE

FreshOutputs(frames) ==
    FreshRun([weight |-> weight, lw |-> None, view |-> FALSE, buf |-> None,
              out |-> <<>>, calls |-> <<>>], frames, <<>>)

\* C5: after clear_buffer has ended a sequence, the outputs of the steps that
\* follow are those a freshly constructed layer with the same weights returns
\* for the same inputs.
C5_NoLeakage ==
    reused => \A b \in 1..bsz : outs[b] = FreshOutputs(hist[b])

C5_Witness ==
    reused /\ kernel_size > 1 /\ bsz = 2 /\ Len(hist[1]) = 2 /\ Stepped

\* C6: reorder_buffer(new_order) on an allocated buffer makes row i the former
\* row new_order[i], frames untouched; and every later output on a row is the
\* projection of the last kernel_size frames of the logical sequence now on
\* that row (zero frames before its start), whichever rows it occupied before.
LogicalWindow(frames) ==
    [k \in 1..kernel_size |->
        LET m == Len(frames) - kernel_size + k
        IN IF m >= 1 THEN frames[m] ELSE [c \in 1..in_channels |-> 0]]

C6_Reorder ==
    [][/\ (ret'.op = "reorder_buffer" /\ input_buffer # None)
          => /\ Len(input_buffer') = Len(ret'.x)
             /\ \A i \in 1..Len(ret'.x) : input_buffer'[i] = input_buffer[ret'.x[i]]
       /\ (Stepped' /\ kernel_size > 1)
          => \A i \in 1..bsz :
                ret'.out[i] = Linear(Flatten(<< LogicalWindow(hist'[i]) >>),
                                    linearized_weight', bias)[1]]_vars

\* a step after the two rows were swapped
C6_Witness ==
    /\ Stepped /\ kernel_size = 2 /\ bsz = 2 /\ Len(hist[1]) = 2
    /\ hist[1][1] = InputFrame(1)[2][1]
    /\ hist[2][1] = InputFrame(1)[1][1]

(***************************************************************************)
(* Properties of the layer's life cycle.                                   *)
(***************************************************************************)
\* the weight a call of the module uses: self.weight after the pre-hooks
HookedWeight == RunSteps(LayerState, forward_pre_hooks, <<>>).weight

\* what the latest incremental step projected: the buffer, or the input frame
\* itself when the kernel width is 1
EffectiveInput ==
    IF kernel_size > 1 THEN input_buffer
    ELSE [b \in 1..bsz |-> << hist[b][Len(hist[b])] >>]

\* C1: for kernel width > 1 and causal padding, the outputs of the incremental
\* steps taken from an empty buffer, the weights staying the same, concatenated
\* along the time axis, are remove_future_timesteps(forward(x)) of the frames
\* x fed in those steps, for the same weights.
C1_Equivalence ==
    (/\ kernel_size > 1 /\ padding = kernel_size - 1 /\ stride = 1 /\ dilation = 1
     /\ steady /\ Len(hist[1]) >= 1)
    => outs = remove_future_timesteps(forward(hist, HookedWeight))

\* C3: whenever the linearized weight is cached it is the linearization of
\* the layer's current weight, and every incremental output is the projection
\* with the linearization of the current weight.
C3_NeverStale ==
    /\ linearized_weight # None => linearized_weight = Linearize(weight)
    /\ Stepped => ret.out = Linear(Flatten(EffectiveInput), Linearize(weight), bias)

\* C4: a backward pass leaves no cached linearized weight; from an empty cache
\* only a successful incremental_forward fills it, and that call computes the
\* linearization from the weight it sees and projects with it.
C4_BackwardClears ==
    [][/\ ret'.op = "backward" => linearized_weight' = None
       /\ (linearized_weight = None /\ linearized_weight' # None) => Stepped'
       /\ (linearized_weight = None /\ Stepped')
          => /\ linearized_weight' = Linearize(weight')
             /\ ret'.out = Linear(Flatten(EffectiveInput'), Linearize(weight'), bias)]_vars

\* a backward pass on a layer that has linearized its weight before
C4_Witness ==
    /\ ret.op = "backward" /\ linearized_weight = None /\ Len(hist[1]) >= 1
    /\ kernel_size = 2 /\ in_channels = 2
    /\ weight = WeightChoice(2, out_channels, in_channels, kernel_size)

\* C8: incremental_forward raises exactly when the layer is in training mode,
\* and then it has run no hook and no other step, and the buffer, the cached
\* linearized weight and the weight are as they were.
C8_TrainingGuard ==
    [][ret'.op = "incremental_forward"
       => /\ ret'.raised = training
          /\ training => /\ ret'.calls = <<>>
                          /\ UNCHANGED <<input_buffer, linearized_weight, lw_is_view,
                                         params, history>>]_vars

C8_Witness ==
    /\ ret.op = "incremental_forward" /\ ret.raised /\ training
    /\ input_buffer # None /\ linearized_weight # None /\ forward_pre_hooks # <<>>

\* C10: a successful incremental_forward of a weight-normalised layer has called
\* every pre-hook once, in registration order, before the linearized weight was
\* taken and the buffer written, and its output is the projection with the
\* weight the hooks have set.
C10_HooksFirst ==
    (Stepped /\ \E i \in 1..Len(forward_pre_hooks) : forward_pre_hooks[i] = "weight_norm")
    => /\ ret.calls = forward_pre_hooks \o <<"_get_linearized_weight", "input_buffer", "F.linear">>
       /\ weight = Reparam(weight_g, weight_v)
       /\ ret.out = Linear(Flatten(EffectiveInput), Linearize(weight), bias)

(***************************************************************************)
(* Properties of batch mode.                                               *)
(***************************************************************************)
\* C7: for kernel width 1, forward(x) is the result of the general path
\* (transpose, convolve with the layer's padding, stride and dilation,
\* transpose back).
C7_LinearIsConv ==
    (ret.op = "forward" /\ kernel_size = 1)
    => ret.out = ConvPath(ret.x, weight, bias, padding, stride, dilation)

(***************************************************************************)
(* Frame conditions.                                                       *)
(***************************************************************************)
\* what incremental_forward would do with the frame number s in this state: the
\* output it returns and the weight, buffer and cached tensor it leaves
RECURSIVE StepsFrom(_, _, _)
StepsFrom(st, steps, input) ==
    IF steps = <<>> THEN <<st.out, st.weight, st.buf, st.lw>>
    ELSE CHOOSE r \in {StepsFrom(nx, Tail(steps), input) :
                         nx \in {DoStep(st, Head(steps), input)}} : TRUE

NextStep(s) == StepsFrom(LayerState, IncrementalSteps(forward_pre_hooks), InputFrame(s))

\* C11: a call of forward(x) (the module called on x, pre-hooks included) or of
\* remove_future_timesteps(x) leaves the input buffer and the cached linearized
\* weight as they were, whatever the state; the outputs returned so far stand,
\* and the next incremental_forward returns for every frame what it would have
\* returned without the call, and leaves the same buffer and cache (it reads
\* nothing else than the configuration, the parameters, the hooks, the buffer
\* and the cache: when none of them has changed there is nothing to compare).
C11_BatchModeFrame ==
    [][ret'.op \in {"forward", "remove_future_timesteps"}
       => /\ UNCHANGED <<input_buffer, linearized_weight>>
          /\ UNCHANGED <<hist, outs>>
          /\ \/ UNCHANGED <<config, params, forward_pre_hooks>>
             \/ \A s \in 1..MaxIn : NextStep(s)' = NextStep(s)]_vars

\* forward and remove_future_timesteps called between two incremental steps of
\* a weight-normalised layer
C11_Witness ==
    /\ ret.op = "remove_future_timesteps"
    /\ input_buffer # None /\ linearized_weight # None /\ Len(hist[1]) = 1
    /\ \E i \in 1..Len(forward_pre_hooks) : forward_pre_hooks[i] = "weight_norm"

(***************************************************************************)
(* Kernel width 1.                                                         *)
(***************************************************************************)
\* the frames of the latest incremental step, as a batch-mode input of one
\* time step
LatestFrame == [b \in 1..bsz |-> << hist[b][Len(hist[b])] >>]

\* C12: for kernel width 1 the buffer is empty in every state the decoder loop
\* (incremental_forward, clear_buffer, reorder_buffer) reaches, and every
\* incremental output is forward applied to the frame of that step alone,
\* whatever the steps before it.
C12_NoBufferForWidth1 ==
    kernel_size = 1
    => /\ input_buffer = None
       /\ Stepped => \A b \in 1..bsz : ret.out[b] = forward(LatestFrame, weight)[b][1]

\* the third step of a beam of two, after frames that differ
C12_Witness ==
    /\ kernel_size = 1 /\ bsz = 2 /\ Stepped /\ Len(hist[1]) = 3 /\ reused
    /\ hist[1][1] # hist[1][3] /\ hist[1][2] # hist[1][3]

(***************************************************************************)
(* The shape of the buffer.                                                *)
(***************************************************************************)
\* buf has bsz rows of kernel_size frames of in_channels values
HasBufferShape(buf) ==
    /\ Len(buf) = bsz
    /\ \A b \in 1..Len(buf) :
          /\ Len(buf[b]) = kernel_size
          /\ \A k \in 1..Len(buf[b]) : Len(buf[b][k]) = in_channels

\* C13: with every incremental input of batch size bsz and every new_order of
\* length bsz over the rows, the buffer is always either empty or of shape
\* (bsz, kernel_size, in_channels); it is empty after construction and before
\* the first step, and once allocated only clear_buffer empties it.
C13_BufferShape ==
    [][/\ input_buffer = None \/ HasBufferShape(input_buffer)
       /\ input_buffer' = None \/ HasBufferShape(input_buffer')
       /\ (Len(hist[1]) = 0 /\ ret.op \in {"eval", "clear_buffer"}) => input_buffer = None
       /\ (input_buffer # None /\ input_buffer' = None) => ret'.op = "clear_buffer"
       /\ ret'.op = "clear_buffer" => input_buffer' = None]_vars

\* a beam of two with kernel width 3, both rows taken from the first, after
\* three steps
C13_Witness ==
    /\ input_buffer # None /\ bsz = 2 /\ kernel_size = 3 /\ Len(hist[1]) = 3
    /\ ret.op = "reorder_buffer" /\ ret.x = <<1, 1>>

(***************************************************************************)
(* The life of the cached linearized weight.                               *)
(***************************************************************************)
\* C14: once the linearized weight is cached, incremental_forward, forward,
\* remove_future_timesteps, clear_buffer and reorder_buffer leave the cache
\* populated with the tensor it holds, neither clearing nor recomputing it: as
\* long as no backward pass runs, the cache stays; and the backward hook that
\* clears it leaves the input buffer as it was.
C14_CachePersists ==
    [][/\ (/\ linearized_weight # None
           /\ ret'.op \in {"incremental_forward", "forward", "remove_future_timesteps",
                            "clear_buffer", "reorder_buffer"})
          => linearized_weight' = linearized_weight
       /\ (linearized_weight # None /\ linearized_weight' = None) => ret'.op = "backward"
       /\ ret'.op = "backward" => UNCHANGED <<input_buffer, hist, outs>>]_vars

\* a backward pass over a layer with an allocated buffer, after two
\* incremental steps the second of which used the cached tensor
C14_Witness ==
    /\ ret.op = "backward" /\ input_buffer # None /\ Len(hist[1]) = 2
    /\ kernel_size = 2 /\ in_channels = 2

(***************************************************************************)
(* reorder_buffer with no buffer.                                          *)
(***************************************************************************)
\* the window of the first step on an empty buffer: zeros, then the frame
FirstWindow(frame) ==
    [k \in 1..kernel_size |->
        IF k = kernel_size THEN frame ELSE [c \in 1..in_channels |-> 0]]

\* C15: reorder_buffer(new_order) with no buffer allocated changes nothing,
\* whatever new_order: the buffer stays empty; and the incremental_forward that
\* finds the buffer empty leaves on every row the all-zero window with its
\* input frame as the last frame, and returns the projection of that window.
C15_ReorderNoBuffer ==
    [][/\ (ret'.op = "reorder_buffer" /\ input_buffer = None)
          => /\ input_buffer' = None
             /\ UNCHANGED <<hist, outs, linearized_weight, weight>>
       /\ (Stepped' /\ input_buffer = None /\ kernel_size > 1)
          => \A b \in 1..bsz :
                /\ Len(hist'[b]) = 1
                /\ input_buffer'[b] = FirstWindow(hist'[b][1])
                /\ ret'.out[b] = Linear(Flatten(<< FirstWindow(hist'[b][1]) >>),
                                        Linearize(weight), bias)[1]]_vars

\* the rows swapped on the empty buffer left by clear_buffer
C15_Witness ==
    /\ ret.op = "reorder_buffer" /\ ret.x = <<2, 1>> /\ input_buffer = None
    /\ reused /\ kernel_size > 1 /\ bsz = 2

(***************************************************************************)
(* remove_future_timesteps.                                                *)
(***************************************************************************)
\* the first n time steps of every row of x, in order (none when n <= 0)
FirstSteps(x, n) == [i \in 1..Len(x) |-> [t \in 1..n |-> x[i][t]]]

\* C16: remove_future_timesteps(x) on an x of T time steps returns the first
\* T - padding time steps of x, in order and unchanged (none when padding >= T),
\* when the kernel width is > 1 and padding > 0, and x itself when the kernel
\* width is 1 or padding is 0.
C16_RemoveFuture ==
    ret.op = "remove_future_timesteps"
    => IF kernel_size > 1 /\ padding > 0
       THEN /\ ret.out = FirstSteps(ret.x, Len(ret.x[1]) - padding)
            /\ \A i \in 1..Len(ret.x) :
                  Len(ret.out[i]) = IF Len(ret.x[i]) > padding
                                    THEN Len(ret.x[i]) - padding ELSE 0
       ELSE ret.out = ret.x

\* three time steps, not all the same, cut to two
C16_Witness ==
    /\ ret.op = "remove_future_timesteps" /\ kernel_size > 1 /\ padding > 0
    /\ Len(ret.x[1]) = 3 /\ Len(ret.out[1]) = 2
    /\ ret.x[1][1] # ret.x[1][3]

====
